---- MODULE Spec2Model ----
(***************************************************************************)
(* bevy_gltf_draco: the KHR_draco_mesh_compression primitive handler.      *)
(*                                                                         *)
(*   src/src/khr_draco_mesh_compression.rs  Semantic::checked,             *)
(*       DracoSemanticLink::from_extension_value, DracoExtension::parse,   *)
(*       DracoExtension::decode_mesh, DracoExtension::build_document       *)
(*   src/src/lib.rs  GltfDracoDecoderExtensionHandler::on_gltf_primitive   *)
(*                                                                         *)
(* Strings are sequences of one-character strings.  Indices into the       *)
(* synthesized document (buffers, views, accessors) are 0-based as in the  *)
(* source; the sequences that hold them are 1-based.                       *)
(***************************************************************************)
EXTENDS Integers, Sequences, FiniteSets, TLC

VARIABLES
    arg,            \* input of the pure function under test
    ret,            \* its result
    applied,        \* TRUE once the pure function has been applied
    pc,             \* position of on_gltf_primitive
    run,            \* 0 before the first invocation, then 1, 2
    prim,           \* gltf_primitive: extensions, indices accessor, attributes
    gltf_views,     \* gltf_json.views()
    buffer_data,    \* the source buffers
    entry_doc,      \* *out_doc on entry
    entry_data,     \* *out_data on entry
    draco_ext,      \* the parsed DracoExtension (its link), or NoLink
    decoded,        \* (config, decode_data) bound by the if-let, or NoResult
    out_doc,        \* *out_doc
    out_data,       \* *out_data
    codec,          \* the decode function, as far as it has been applied
    hash_iter,      \* the HashMap's iteration order, as far as it has been used
    decoder_called, \* decode_mesh_with_config_sync was invoked in this run
    build_called,   \* build_document was invoked in this run
    wrote_doc,      \* *out_doc was assigned in this run
    wrote_data,     \* *out_data was assigned in this run
    first           \* outcome of the first invocation, or NoOutcome

vars == <<arg, ret, applied, pc, run, prim, gltf_views, buffer_data, entry_doc,
          entry_data, draco_ext, decoded, out_doc, out_data, codec, hash_iter,
          decoder_called, build_called, wrote_doc, wrote_data, first>>

handlerVars == <<pc, run, prim, gltf_views, buffer_data, entry_doc, entry_data,
                 draco_ext, decoded, out_doc, out_data, codec, hash_iter,
                 decoder_called, build_called, wrote_doc, wrote_data, first>>

fnVars == <<arg, ret, applied>>

-----------------------------------------------------------------------------
(* Bounds *)

\* longest free-form remainder appended to a prefix in the classifier inputs
MaxLen == 2
\* index counts are drawn from U16_MAX - MaxDelta .. U16_MAX + MaxDelta
MaxDelta == 8
\* codec indices of an attributes object are drawn from 0 .. MaxCodecIndex
MaxCodecIndex == 1
\* a decode configuration reports at most MaxAttrs attributes
MaxAttrs == 2
\* bufferView of an extension record is drawn from 0 .. MaxView
MaxView == 1

\* u16::MAX
U16_MAX == 65535

-----------------------------------------------------------------------------
(* Strings *)

POSITION  == <<"P","O","S","I","T","I","O","N">>
NORMAL    == <<"N","O","R","M","A","L">>
TANGENT   == <<"T","A","N","G","E","N","T">>
COLOR_    == <<"C","O","L","O","R","_">>
TEXCOORD_ == <<"T","E","X","C","O","O","R","D","_">>
JOINTS_   == <<"J","O","I","N","T","S","_">>
WEIGHTS_  == <<"W","E","I","G","H","T","S","_">>
UNDERSCORE == <<"_">>

DigitChars == {"0","1","2","3","4","5","6","7","8","9"}

DigitVal(c) ==
    CASE c = "0" -> 0 [] c = "1" -> 1 [] c = "2" -> 2 [] c = "3" -> 3
      [] c = "4" -> 4 [] c = "5" -> 5 [] c = "6" -> 6 [] c = "7" -> 7
      [] c = "8" -> 8 [] c = "9" -> 9

SeqsUpTo(A, n) == UNION {[1..k -> A] : k \in 0..n}

\* str::starts_with
starts_with(s, p) == Len(s) >= Len(p) /\ SubSeq(s, 1, Len(p)) = p

SliceOk(t)  == [panic |-> FALSE, str |-> t]
SlicePanic  == [panic |-> TRUE, str |-> <<>>]

\* s[n..]: aborts when n is past the end of the string
slice_from(s, n) == IF n > Len(s) THEN SlicePanic ELSE SliceOk(SubSeq(s, n + 1, Len(s)))

\* decimal digits of u32::MAX = 4294967295
U32MaxDigits == <<"4","2","9","4","9","6","7","2","9","5">>

RECURSIVE StripZeros(_)
\* the canonical numeral of a non-empty digit string: no leading zeros
StripZeros(d) ==
    IF Len(d) > 1 /\ d[1] = "0" THEN StripZeros(Tail(d)) ELSE d

\* d and m canonical numerals: d > m
NumeralGreater(d, m) ==
    \/ Len(d) > Len(m)
    \/ /\ Len(d) = Len(m)
       /\ \E i \in 1..Len(d) :
            /\ DigitVal(d[i]) > DigitVal(m[i])
            /\ \A j \in 1..(i - 1) : d[j] = m[j]

ParseOk(v) == [ok |-> TRUE, val |-> v]
ParseErr   == [ok |-> FALSE, val |-> <<>>]

\* str::parse::<u32>: an optional '+', then at least one decimal digit, the
\* value at most u32::MAX.  The value is kept as its canonical numeral.
parse_u32(t) ==
    IF t = <<>> THEN ParseErr
    ELSE LET digits == IF t[1] = "+" THEN Tail(t) ELSE t IN
         IF digits = <<>> THEN ParseErr
         ELSE IF \E i \in 1..Len(digits) : digits[i] \notin DigitChars THEN ParseErr
         ELSE IF NumeralGreater(StripZeros(digits), U32MaxDigits) THEN ParseErr
         ELSE ParseOk(StripZeros(digits))

-----------------------------------------------------------------------------
(* Semantic::checked *)

Positions    == [tag |-> "Positions", of |-> <<>>]
Normals      == [tag |-> "Normals",   of |-> <<>>]
Tangents     == [tag |-> "Tangents",  of |-> <<>>]
Extras(name) == [tag |-> "Extras",    of |-> name]
Colors(set)    == [tag |-> "Colors",    of |-> set]
TexCoords(set) == [tag |-> "TexCoords", of |-> set]
Joints(set)    == [tag |-> "Joints",    of |-> set]
Weights(set)   == [tag |-> "Weights",   of |-> set]

NoSemantic == [tag |-> "None", of |-> <<>>]

\* Checked<Semantic>; CheckedPanic stands for the call aborting
Valid(x)     == [status |-> "Valid",   value |-> x]
Invalid      == [status |-> "Invalid", value |-> NoSemantic]
CheckedPanic == [status |-> "Panic",   value |-> NoSemantic]
NotRun       == [status |-> "NotRun",  value |-> NoSemantic]

\* the arm slicing one byte past the prefix
SetArm_SkipOne(s, prefix, tag) ==
    LET rest == slice_from(s, Len(prefix) + 1) IN
    IF rest.panic THEN CheckedPanic
    ELSE LET p == parse_u32(rest.str) IN
         IF p.ok THEN Valid([tag |-> tag, of |-> p.val]) ELSE Invalid

\* one prefix arm: match s[prefix.len()..].parse() { Ok(set) => Valid(..), Err(_) => Invalid }
SetArm(s, prefix, tag) ==
    LET rest == slice_from(s, Len(prefix)) IN
    IF rest.panic THEN CheckedPanic
    ELSE LET p == parse_u32(rest.str) IN
         IF p.ok THEN Valid([tag |-> tag, of |-> p.val]) ELSE Invalid

checked(s) ==
    IF s = NORMAL THEN Valid(Normals)
    ELSE IF s = POSITION THEN Valid(Positions)
    ELSE IF s = TANGENT THEN Valid(Tangents)
    ELSE IF starts_with(s, UNDERSCORE) THEN
        LET rest == slice_from(s, 1) IN
        IF rest.panic THEN CheckedPanic ELSE Valid(Extras(rest.str))
    ELSE IF starts_with(s, COLOR_) THEN SetArm(s, COLOR_, "Colors")
    ELSE IF starts_with(s, TEXCOORD_) THEN SetArm(s, TEXCOORD_, "TexCoords")
    ELSE IF starts_with(s, JOINTS_) THEN SetArm(s, JOINTS_, "Joints")
    ELSE IF starts_with(s, WEIGHTS_) THEN SetArm(s, WEIGHTS_, "Weights")
    ELSE Invalid

-----------------------------------------------------------------------------
(* The extension record and DracoExtension::parse *)

\* serde_json values, as far as the record's fields need them
JNum(n)  == [t |-> "num",     n |-> n, obj |-> <<>>]
JStr     == [t |-> "str",     n |-> 0, obj |-> <<>>]
JObj(f)  == [t |-> "obj",     n |-> 0, obj |-> f]
JMissing == [t |-> "missing", n |-> 0, obj |-> <<>>]

\* the value of the "KHR_draco_mesh_compression" entry: an object with the
\* fields bufferView and attributes, each possibly missing or ill-typed
DracoJson(bv, attrs) == [t |-> "obj", bufferView |-> bv, attributes |-> attrs]
NotAnObject          == [t |-> "str", bufferView |-> JMissing, attributes |-> JMissing]

\* primitive.extensions(): None, or a map that may hold the entry
NoExtensions      == [some |-> FALSE, has_key |-> FALSE, value |-> NotAnObject]
OtherExtensions   == [some |-> TRUE,  has_key |-> FALSE, value |-> NotAnObject]
DracoEntry(value) == [some |-> TRUE,  has_key |-> TRUE,  value |-> value]

DeOk(bv, attrs) == [ok |-> TRUE,  buffer_view |-> bv, attributes |-> attrs]
DeErr           == [ok |-> FALSE, buffer_view |-> 0,  attributes |-> <<>>]

\* the record deserialized with #[serde(default)]: a missing field takes its
\* default value
from_str_default(value) ==
    IF /\ value.t = "obj"
       /\ value.bufferView.t \in {"num", "missing"}
       /\ value.attributes.t \in {"obj", "missing"}
       /\ \A k \in DOMAIN value.attributes.obj : value.attributes.obj[k].t = "num"
    THEN DeOk(value.bufferView.n,
              [k \in DOMAIN value.attributes.obj |-> value.attributes.obj[k].n])
    ELSE DeErr

\* serde_json::from_str::<DracoExtensionValue>: both fields are required,
\* bufferView a usize and attributes a map from strings to usize
from_str(value) ==
    IF /\ value.t = "obj"
       /\ value.bufferView.t = "num"
       /\ value.attributes.t = "obj"
       /\ \A k \in DOMAIN value.attributes.obj : value.attributes.obj[k].t = "num"
    THEN DeOk(value.bufferView.n,
              [k \in DOMAIN value.attributes.obj |-> value.attributes.obj[k].n])
    ELSE DeErr

\* the orders in which a HashMap with key set S may yield its entries
IterOrders(S) ==
    { o \in [1..Cardinality(S) -> S] : \A i, j \in 1..Cardinality(S) : o[i] = o[j] => i = j }

\* a HashMap hashing with a random state: any order, each time
HashOrders_RandomState(memo, attributes) == IterOrders(DOMAIN attributes)

\* the orders in which the HashMap of this build may yield the entries of
\* `attributes`: bevy_platform's HashMap hashes with a fixed state, so the
\* order is a function of the map's contents; `memo` holds the orders seen
HashOrders(memo, attributes) ==
    { o \in IterOrders(DOMAIN attributes) :
        \A e \in memo : e.attributes = attributes => e.order = o }

LinkOk(map, bv) == [panic |-> FALSE, map |-> map, buffer_view |-> bv]
LinkPanic       == [panic |-> TRUE,  map |-> <<>>, buffer_view |-> 0]

\* an insert that keeps the entry already there
insert_keep(map, k, v) == map @@ (k :> v)

\* BTreeMap::insert: a later insert of the same key replaces the entry
insert(map, k, v) == (k :> v) @@ map

RECURSIVE InsertAll(_, _, _, _)
\* the for loop of from_extension_value from position i of the iteration on
InsertAll(attributes, order, i, id) ==
    IF i > Len(order) THEN [panic |-> FALSE, map |-> id]
    ELSE LET c == checked(order[i]) IN
         IF c.status # "Valid" THEN [panic |-> TRUE, map |-> <<>>]
         ELSE InsertAll(attributes, order, i + 1,
                        insert(id, attributes[order[i]], c.value))

\* the link built without the record's bufferView
from_extension_value_no_view(value, order) ==
    LET r == InsertAll(value.attributes, order, 1, <<>>) IN
    IF r.panic THEN LinkPanic ELSE LinkOk(r.map, 0)

\* DracoSemanticLink::from_extension_value, the HashMap yielding its
\* entries in the given order; unwrap aborts on an unrecognized name
from_extension_value(value, order) ==
    LET r == InsertAll(value.attributes, order, 1, <<>>) IN
    IF r.panic THEN LinkPanic ELSE LinkOk(r.map, value.buffer_view)

ParseNone      == [kind |-> "None",  link |-> LinkPanic]
ParsePanic     == [kind |-> "Panic", link |-> LinkPanic]
ParseSome(l)   == [kind |-> "Some",  link |-> l]

\* DracoExtension::parse
parse(primitive, order) ==
    LET extentions == primitive.extensions IN
    IF ~extentions.some THEN ParseNone
    ELSE IF ~extentions.has_key THEN ParseNone
    ELSE LET value == from_str(extentions.value) IN
         IF ~value.ok THEN ParseNone
         ELSE LET link == from_extension_value(value, order) IN
              IF link.panic THEN ParsePanic ELSE ParseSome(link)

-----------------------------------------------------------------------------
(* DracoExtension::decode_mesh *)

View(b, o, l) == [buffer |-> b, offset |-> o, length |-> l]

SliceSome(bytes) == [panic |-> FALSE, bytes |-> bytes]
SliceAbort       == [panic |-> TRUE,  bytes |-> <<>>]

\* gltf.views().nth(buffer_view).unwrap() and the slice of its byte range:
\* aborts when the view, the buffer or the range does not exist
payload_slice(link, views, buffers) ==
    IF link.buffer_view >= Len(views) THEN SliceAbort
    ELSE LET view == views[link.buffer_view + 1] IN
         IF view.buffer >= Len(buffers) THEN SliceAbort
         ELSE IF view.offset + view.length > Len(buffers[view.buffer + 1]) THEN SliceAbort
         ELSE SliceSome(SubSeq(buffers[view.buffer + 1], view.offset + 1,
                               view.offset + view.length))

Attr(o, l) == [offset |-> o, lenght |-> l]
Config(size, attrs) == [buffer_size |-> size, attributes |-> attrs]

\* what decode_mesh_with_config_sync returns: None, or a configuration and
\* the decoded bytes
DecodeFail == [some |-> FALSE, config |-> Config(0, <<>>), data |-> [len |-> 0]]
DecodeOk(config) == [some |-> TRUE, config |-> config, data |-> [len |-> config.buffer_size]]

\* the results the decode function may give for `payload`: it is a function
\* of its input; `memo` holds the results it has given
DecodeOutcomes(memo, payload, results) ==
    { r \in results : \A e \in memo : e.payload = payload => e.result = r }

\* decode_mesh after a successful decode: Some((result.config, vec![result.data]))
decode_mesh_some(result) == [config |-> result.config, decode_data |-> <<result.data>>]

-----------------------------------------------------------------------------
(* DracoExtension::build_document *)

NoAccessor == [some |-> FALSE, data_type |-> "U8", count |-> 0, dimensions |-> "Scalar",
               min |-> <<>>, max |-> <<>>]
Accessor(dt, count, dims, min, max) ==
    [some |-> TRUE, data_type |-> dt, count |-> count, dimensions |-> dims,
     min |-> min, max |-> max]

\* primitive.get(semantic)
get(primitive, semantic) ==
    IF semantic \in DOMAIN primitive.attributes
    THEN primitive.attributes[semantic] ELSE NoAccessor

\* match (indices.data_type(), indices.count()) { (U16, count) if count > u16::MAX => U32, (data_type, _) => data_type }
IndexDataType(data_type, count) ==
    IF data_type = "U16" /\ count > U16_MAX THEN "U32" ELSE data_type

JsonView(buffer, len, off) ==
    [buffer |-> buffer, byte_length |-> len, byte_offset |-> off, target |-> "ArrayBuffer"]

JsonAccessor(view, count, ct, type_, min, max) ==
    [buffer_view |-> view, count |-> count, component_type |-> ct, type_ |-> type_,
     min |-> min, max |-> max]

\* the index view placed after the buffer's bytes
IndexView_AtEnd(buffer, buffer_length) == JsonView(buffer, buffer_length, buffer_length)

\* the buffer view pushed for the index stream
IndexView(buffer, buffer_length) == JsonView(buffer, buffer_length, 0)

\* the buffer view pushed for one attribute of the decode configuration
AttributeView(buffer, mesh_attribute) ==
    JsonView(buffer, mesh_attribute.lenght, mesh_attribute.offset)

MapSome(v) == [some |-> TRUE,  value |-> v]
MapNone    == [some |-> FALSE, value |-> NoSemantic]

\* a lookup that falls back to Position
map_get_or_position(map, index) ==
    IF index \in DOMAIN map THEN MapSome(map[index]) ELSE MapSome(Positions)

\* self.link.map.get(&index)
map_get(map, index) == IF index \in DOMAIN map THEN MapSome(map[index]) ELSE MapNone

RECURSIVE AttributeLoop(_, _, _, _, _)
\* the for loop over decode_config.attributes().iter().enumerate(), from
\* codec index `index` on; root holds the views, accessors and attribute map
AttributeLoop(link, primitive, attributes, index, root) ==
    IF index >= Len(attributes) THEN root
    ELSE IF ~map_get(link.map, index).some THEN [root EXCEPT !.panic = TRUE]
    ELSE LET semantic == map_get(link.map, index).value
             old_attr == get(primitive, semantic) IN
         IF ~old_attr.some THEN [root EXCEPT !.panic = TRUE]
         ELSE LET view_index == Len(root.views)
                  attr_index == Len(root.accessors) IN
              AttributeLoop(link, primitive, attributes, index + 1,
                  [panic |-> FALSE,
                   views |-> Append(root.views, AttributeView(0, attributes[index + 1])),
                   accessors |-> Append(root.accessors,
                       JsonAccessor(view_index, old_attr.count, old_attr.data_type,
                                    old_attr.dimensions, old_attr.min, old_attr.max)),
                   map |-> insert(root.map, semantic, attr_index)])

EmptyRoot == [buffers |-> <<>>, views |-> <<>>, accessors |-> <<>>, meshes |-> <<>>]

NoneDoc    == [some |-> FALSE, panic |-> FALSE, root |-> EmptyRoot]
SomeDoc(r) == [some |-> TRUE,  panic |-> FALSE, root |-> r]
BuildPanic == [some |-> FALSE, panic |-> TRUE,  root |-> EmptyRoot]

\* DracoExtension::build_document: Some(document), or BuildPanic when an
\* unwrap aborts
build_document(link, primitive, decode_config) ==
    LET buffer_length == decode_config.buffer_size
        buffer == 0
        indices_index == 0
        indices == primitive.indices IN
    IF ~indices.some THEN BuildPanic
    ELSE LET data_type == IndexDataType(indices.data_type, indices.count)
             indices_accessor == 0
             loop == AttributeLoop(link, primitive, decode_config.attributes, 0,
                        [panic |-> FALSE,
                         views |-> <<IndexView(buffer, buffer_length)>>,
                         accessors |-> <<JsonAccessor(indices_index, indices.count, data_type,
                                                      indices.dimensions, <<>>, <<>>)>>,
                         map |-> <<>>]) IN
         IF loop.panic THEN BuildPanic
         ELSE SomeDoc([buffers |-> <<[byte_length |-> buffer_length]>>,
                       views |-> loop.views,
                       accessors |-> loop.accessors,
                       meshes |-> << [primitives |->
                                       << [attributes |-> loop.map,
                                           indices |-> indices_accessor,
                                           mode |-> "Triangles"] >>] >>])

-----------------------------------------------------------------------------
(* Inputs of on_gltf_primitive *)

FOO      == <<"F","O","O">>
COLOR_0  == COLOR_ \o <<"0">>
COLOR_00 == COLOR_ \o <<"0","0">>

\* attribute names of the extension records that name a semantic; COLOR_0
\* and COLOR_00 name the same one
HandlerNames == {POSITION, COLOR_0, COLOR_00}

\* the attributes objects: every assignment of codec indices to some of the
\* names, and two objects with a name that names no semantic
AttrObjects ==
    UNION {[S -> 0..MaxCodecIndex] : S \in SUBSET HandlerNames}
        \cup {(FOO :> 0), (POSITION :> 0) @@ (FOO :> 1)}

JAttrs(a) == JObj([k \in DOMAIN a |-> JNum(a[k])])

WellFormedValues == {DracoJson(JNum(b), JAttrs(a)) : b \in 0..MaxView, a \in AttrObjects}

MalformedValues ==
    { NotAnObject,
      DracoJson(JMissing, JAttrs(POSITION :> 0)),
      DracoJson(JStr, JAttrs(POSITION :> 0)),
      DracoJson(JNum(0), JMissing),
      DracoJson(JNum(0), JStr),
      DracoJson(JNum(0), JObj(POSITION :> JStr)) }

ExtensionChoices ==
    {NoExtensions, OtherExtensions}
        \cup {DracoEntry(v) : v \in WellFormedValues \cup MalformedValues}

IndexChoices == {NoAccessor, Accessor("U16", U16_MAX + 1, "Scalar", <<>>, <<>>)}

PositionAccessor == Accessor("F32", 3, "Vec3", <<0, 0, 0>>, <<1, 1, 1>>)
ColorAccessor    == Accessor("U8", 3, "Vec4", <<>>, <<>>)

AttributeChoices ==
    { (Positions :> PositionAccessor),
      (Positions :> PositionAccessor) @@ (Colors(<<"0">>) :> ColorAccessor) }

NoPrimitive == [extensions |-> NoExtensions, indices |-> NoAccessor, attributes |-> <<>>]

Primitives ==
    [extensions : ExtensionChoices, indices : IndexChoices, attributes : AttributeChoices]

\* the source document's buffer views: the payload view alone, a view whose
\* range runs past its buffer, and two views
ViewChoices ==
    { <<View(0, 0, 2)>>, <<View(0, 1, 2)>>, <<View(0, 0, 2), View(0, 1, 1)>> }

BufferChoices == { << <<1, 2>> >> }

\* layouts a decode configuration may report for one attribute
AttrLayouts == {Attr(12, 24), Attr(36, 24)}

\* the decode configurations: the second layout runs past the estimated
\* buffer size
ConfigChoices == {Config(48, attrs) : attrs \in SeqsUpTo(AttrLayouts, MaxAttrs)}

DecodeResults == {DecodeFail} \cup {DecodeOk(c) : c \in ConfigChoices}

NoneData     == [some |-> FALSE, buffers |-> <<>>]
SomeData(bs) == [some |-> TRUE,  buffers |-> bs]

\* values another handler may have left in the outputs
PriorDoc  == SomeDoc(EmptyRoot)
PriorData == SomeData(<<>>)

NoDecoded == [config |-> Config(0, <<>>), decode_data |-> <<>>]
NoOutcome == [pc |-> "none", out_doc |-> NoneDoc, out_data |-> NoneData]

-----------------------------------------------------------------------------
(* on_gltf_primitive *)

HandlerIdle ==
    /\ pc = "idle"
    /\ run = 0
    /\ prim = NoPrimitive
    /\ gltf_views = <<>>
    /\ buffer_data = <<>>
    /\ entry_doc = NoneDoc
    /\ entry_data = NoneData
    /\ draco_ext = LinkPanic
    /\ decoded = NoDecoded
    /\ out_doc = NoneDoc
    /\ out_data = NoneData
    /\ codec = {}
    /\ hash_iter = {}
    /\ decoder_called = FALSE
    /\ build_called = FALSE
    /\ wrote_doc = FALSE
    /\ wrote_data = FALSE
    /\ first = NoOutcome

Init ==
    /\ arg = <<>>
    /\ ret = NotRun
    /\ applied = FALSE
    /\ HandlerIdle

\* the loader calls the handler for a primitive
Begin ==
    /\ pc = "idle"
    /\ prim' \in Primitives
    /\ gltf_views' \in ViewChoices
    /\ buffer_data' \in BufferChoices
    /\ \E e \in {<<NoneDoc, NoneData>>, <<PriorDoc, PriorData>>} :
        /\ entry_doc' = e[1]
        /\ out_doc' = e[1]
        /\ entry_data' = e[2]
        /\ out_data' = e[2]
    /\ run' = 1
    /\ pc' = "parse"
    /\ UNCHANGED <<draco_ext, decoded, codec, hash_iter, decoder_called, build_called,
                   wrote_doc, wrote_data, first, fnVars>>

\* DracoExtension::parse(load_context, &gltf_json, gltf_primitive)
Parse ==
    /\ pc = "parse"
    /\ LET ext == prim.extensions
           de == from_str(ext.value)
           iterates == ext.some /\ ext.has_key /\ de.ok IN
       \E order \in (IF iterates THEN HashOrders(hash_iter, de.attributes) ELSE {<<>>}) :
         /\ hash_iter' = IF iterates
                         THEN hash_iter \cup {[attributes |-> de.attributes, order |-> order]}
                         ELSE hash_iter
         /\ LET r == parse(prim, order) IN
              /\ pc' = CASE r.kind = "None" -> "returned"
                         [] r.kind = "Panic" -> "aborted"
                         [] r.kind = "Some" -> "decode"
              /\ draco_ext' = r.link
    /\ UNCHANGED <<run, prim, gltf_views, buffer_data, entry_doc, entry_data, decoded,
                   out_doc, out_data, codec, decoder_called, build_called, wrote_doc,
                   wrote_data, first, fnVars>>

\* draco_ext.decode_mesh(gltf_json, &buffer_data)
DecodeMesh ==
    /\ pc = "decode"
    /\ LET s == payload_slice(draco_ext, gltf_views, buffer_data) IN
       IF s.panic
       THEN /\ pc' = "aborted"
            /\ UNCHANGED <<decoded, codec, decoder_called>>
       ELSE \E result \in DecodeOutcomes(codec, s.bytes, DecodeResults) :
            /\ codec' = codec \cup {[payload |-> s.bytes, result |-> result]}
            /\ decoder_called' = TRUE
            /\ IF result.some
               THEN /\ decoded' = decode_mesh_some(result)
                    /\ pc' = "emit"
               ELSE /\ decoded' = decoded
                    /\ pc' = "returned"
    /\ UNCHANGED <<run, prim, gltf_views, buffer_data, entry_doc, entry_data, draco_ext,
                   out_doc, out_data, hash_iter, build_called, wrote_doc, wrote_data,
                   first, fnVars>>

\* the body of the if: *out_data = Some(decode_data);
\* *out_doc = draco_ext.build_document(&gltf_primitive, &config);
\* build_document aborting leaves the first assignment done
EmitReplacement ==
    /\ pc = "emit"
    /\ out_data' = SomeData(decoded.decode_data)
    /\ wrote_data' = TRUE
    /\ build_called' = TRUE
    /\ LET doc == build_document(draco_ext, prim, decoded.config) IN
       IF doc.panic
       THEN /\ pc' = "aborted"
            /\ UNCHANGED <<out_doc, wrote_doc>>
       ELSE /\ out_doc' = doc
            /\ wrote_doc' = TRUE
            /\ pc' = "returned"
    /\ UNCHANGED <<run, prim, gltf_views, buffer_data, entry_doc, entry_data, draco_ext,
                   decoded, codec, hash_iter, decoder_called, first, fnVars>>

\* the loader calls the handler a second time, for the same primitive and
\* source buffers and with the outputs as they were on the first entry
Rerun ==
    /\ pc \in {"returned", "aborted"}
    /\ run = 1
    /\ first' = [pc |-> pc, out_doc |-> out_doc, out_data |-> out_data]
    /\ run' = 2
    /\ pc' = "parse"
    /\ out_doc' = entry_doc
    /\ out_data' = entry_data
    /\ draco_ext' = LinkPanic
    /\ decoded' = NoDecoded
    /\ decoder_called' = FALSE
    /\ build_called' = FALSE
    /\ wrote_doc' = FALSE
    /\ wrote_data' = FALSE
    /\ UNCHANGED <<prim, gltf_views, buffer_data, entry_doc, entry_data, codec, hash_iter,
                   fnVars>>

Next == Begin \/ Parse \/ DecodeMesh \/ EmitReplacement \/ Rerun

Spec == Init /\ [][Next]_vars

-----------------------------------------------------------------------------
(* The classifier applied to strings *)

RemainderChars == {"0", "7", "+", "-", "x"}

LongRemainders ==
    { U32MaxDigits,
      <<"4","2","9","4","9","6","7","2","9","6">>,
      <<"0","4","2","9","4","9","6","7","2","9","5">>,
      <<"+","4","2","9","4","9","6","7","2","9","5">>,
      <<"F","o","o">>,
      COLOR_ \o <<"1">> }

Prefixes ==
    { <<>>, UNDERSCORE, COLOR_, TEXCOORD_, JOINTS_, WEIGHTS_, POSITION, NORMAL,
      TANGENT, <<"C","O","L","O","R">>, <<"c","o","l","o","r","_">>, <<"F","O","O">> }

CheckedInputs ==
    { p \o r : p \in Prefixes, r \in SeqsUpTo(RemainderChars, MaxLen) \cup LongRemainders }

InitChecked ==
    /\ arg \in CheckedInputs
    /\ ret = NotRun
    /\ applied = FALSE
    /\ HandlerIdle

ApplyChecked ==
    /\ ~applied
    /\ ret' = checked(arg)
    /\ applied' = TRUE
    /\ UNCHANGED <<arg, handlerVars>>

NextChecked == ApplyChecked

SpecChecked == InitChecked /\ [][NextChecked]_vars

-----------------------------------------------------------------------------
(* C5 *)

C5_SetPrefixes ==
    { <<COLOR_, "Colors">>, <<TEXCOORD_, "TexCoords">>,
      <<JOINTS_, "Joints">>, <<WEIGHTS_, "Weights">> }

C5_Rest(s, p) == SubSeq(s, Len(p) + 1, Len(s))

\* r is the numeral of a non-negative integer that the set index can hold:
\* an optional '+', one or more decimal digits, the value within u32
C5_IsIndex(r) ==
    LET d == IF r # <<>> /\ r[1] = "+" THEN Tail(r) ELSE r IN
    /\ d # <<>>
    /\ \A i \in 1..Len(d) : d[i] \in DigitChars
    /\ ~NumeralGreater(StripZeros(d), U32MaxDigits)

C5_Index(r) == StripZeros(IF r[1] = "+" THEN Tail(r) ELSE r)

C5_Expected(s) ==
    IF s = POSITION THEN Valid(Positions)
    ELSE IF s = NORMAL THEN Valid(Normals)
    ELSE IF s = TANGENT THEN Valid(Tangents)
    ELSE IF s # <<>> /\ s[1] = "_" THEN Valid(Extras(Tail(s)))
    ELSE IF \E q \in C5_SetPrefixes : starts_with(s, q[1]) THEN
        LET q == CHOOSE q \in C5_SetPrefixes : starts_with(s, q[1])
            r == C5_Rest(s, q[1]) IN
        IF C5_IsIndex(r) THEN Valid([tag |-> q[2], of |-> C5_Index(r)]) ELSE Invalid
    ELSE Invalid

\* C5: Semantic::checked is total and applies its rules in order: the exact
\* names give Position/Normal/Tangent; otherwise a leading "_" gives
\* Extra(remainder), the empty remainder included; otherwise the prefixes
\* COLOR_, TEXCOORD_, JOINTS_, WEIGHTS_ give the set variant when the remainder
\* parses as a non-negative integer and Unrecognized when it does not (the
\* empty remainder included); every other string gives Unrecognized.  It
\* never aborts.
C5_CheckedRules ==
    applied =>
        /\ ret.status \in {"Valid", "Invalid"}
        /\ ret = C5_Expected(arg)
        /\ (arg = UNDERSCORE => ret = Valid(Extras(<<>>)))
        /\ (arg = UNDERSCORE \o COLOR_ \o <<"1">> =>
                ret = Valid(Extras(COLOR_ \o <<"1">>)))
        /\ (arg = TEXCOORD_ \o <<"7">> => ret = Valid(TexCoords(<<"7">>)))
        /\ (arg \in {COLOR_, COLOR_ \o <<"x">>, <<"F","O","O">>} => ret = Invalid)

\* "JOINTS_07" has been classified as the joints set 7
C5_Witness ==
    /\ applied
    /\ arg = JOINTS_ \o <<"0", "7">>
    /\ ret = Valid(Joints(<<"7">>))

-----------------------------------------------------------------------------
(* build_document applied to index accessors *)

IndexTypes == {"U8", "U16", "U32"}

IndexCounts == {0, 1000, 100000} \cup ((U16_MAX - MaxDelta)..(U16_MAX + MaxDelta))

IndexInputs == {Accessor(dt, n, "Scalar", <<>>, <<>>) : dt \in IndexTypes, n \in IndexCounts}

InitIndex ==
    /\ arg \in IndexInputs
    /\ ret = NoneDoc
    /\ applied = FALSE
    /\ HandlerIdle

\* build_document for a primitive with the index accessor `arg`, a link
\* {0: Position} and a configuration with one attribute
ApplyBuildIndex ==
    /\ ~applied
    /\ ret' = build_document(LinkOk((0 :> Positions), 0),
                             [extensions |-> NoExtensions, indices |-> arg,
                              attributes |-> (Positions :> PositionAccessor)],
                             Config(48, <<Attr(12, 24)>>))
    /\ applied' = TRUE
    /\ UNCHANGED <<arg, handlerVars>>

NextIndex == ApplyBuildIndex

SpecIndex == InitIndex /\ [][NextIndex]_vars

-----------------------------------------------------------------------------
(* Vocabulary of the properties *)

Stopped == pc \in {"returned", "aborted"}

\* the attributes object of the primitive's record, names to codec indices
RecordAttrs == from_str(prim.extensions.value).attributes

\* the record is well formed and every name of it classifies
WellFormedRecord ==
    /\ prim.extensions.some
    /\ prim.extensions.has_key
    /\ from_str(prim.extensions.value).ok
    /\ \A n \in DOMAIN RecordAttrs : checked(n).status = "Valid"

\* parse has returned Some
ParsedSome == pc \notin {"idle", "parse"} /\ ~draco_ext.panic

\* build_document has returned a document in this run
Built == pc = "returned" /\ wrote_doc

\* N, the attribute count of the decode configuration
N == Len(decoded.config.attributes)

Root == out_doc.root

ViewEnd(v) == v.byte_offset + v.byte_length

ViewsDisjoint(v, w) ==
    \/ v.byte_length = 0
    \/ w.byte_length = 0
    \/ ViewEnd(v) <= w.byte_offset
    \/ ViewEnd(w) <= v.byte_offset

RegionsDisjoint(a, b) ==
    \/ a.lenght = 0
    \/ b.lenght = 0
    \/ a.offset + a.lenght <= b.offset
    \/ b.offset + b.lenght <= a.offset

TypeWidth(dt) == CASE dt = "U8" -> 1 [] dt = "U16" -> 2 [] dt = "U32" -> 4

-----------------------------------------------------------------------------
(* C1 *)

\* the entry does not deserialize: it is no object, bufferView or attributes
\* is missing, or a field has the wrong type
C1_Malformed(value) ==
    \/ value.t # "obj"
    \/ value.bufferView.t # "num"
    \/ value.attributes.t # "obj"
    \/ \E k \in DOMAIN value.attributes.obj : value.attributes.obj[k].t # "num"

C1_NotApplicable ==
    \/ ~prim.extensions.some
    \/ ~prim.extensions.has_key
    \/ C1_Malformed(prim.extensions.value)

C1_DecodeFailed ==
    /\ decoder_called
    /\ \E e \in codec :
        /\ e.payload = payload_slice(draco_ext, gltf_views, buffer_data).bytes
        /\ ~e.result.some

\* C1: when the primitive has no extension record, no
\* KHR_draco_mesh_compression entry, an entry that does not deserialize, or
\* the decode function returns no result, the handler returns normally with
\* out_doc and out_data as they were on entry and build_document is never
\* invoked; the decoder is never invoked in the first three cases.
C1_NothingEmitted ==
    /\ (run >= 1 /\ C1_NotApplicable) =>
            /\ pc \in {"parse", "returned"}
            /\ ~decoder_called
    /\ (run >= 1 /\ (C1_NotApplicable \/ C1_DecodeFailed)) =>
            /\ pc \in {"parse", "returned"}
            /\ out_doc = entry_doc
            /\ out_data = entry_data
            /\ ~wrote_doc /\ ~wrote_data
            /\ ~build_called

\* the decode function has returned no result for a primitive whose outputs
\* held values on entry, and the handler has returned
C1_Witness ==
    /\ pc = "returned"
    /\ C1_DecodeFailed
    /\ entry_doc = PriorDoc
    /\ entry_data = PriorData

-----------------------------------------------------------------------------
(* C2 *)

C2_Out == ret.root.accessors[1].component_type

\* C2: the index accessor synthesized by build_document has the original
\* component type unless the original index count exceeds 65535, in which
\* case its component type is the 32-bit unsigned type; it is never narrower
\* than the original, and a count of exactly 65535 is not promoted.
C2_IndexPromotion ==
    applied =>
        /\ ret.some
        /\ C2_Out = (IF arg.count > U16_MAX THEN "U32" ELSE arg.data_type)
        /\ TypeWidth(C2_Out) >= TypeWidth(arg.data_type)

-----------------------------------------------------------------------------
(* C3 *)

\* C3: in every document returned by build_document the index buffer-view
\* covers only the index region and the buffer-views partition the buffer:
\* the byte ranges of the index view and of the attribute views are pairwise
\* disjoint.  (Stated for the configurations whose attribute regions are
\* themselves pairwise disjoint.)
C3_ViewsPartition ==
    (/\ Built
     /\ \A i, j \in 1..N :
            i # j => RegionsDisjoint(decoded.config.attributes[i],
                                     decoded.config.attributes[j]))
        => \A i, j \in 1..Len(Root.views) :
                i # j => ViewsDisjoint(Root.views[i], Root.views[j])

-----------------------------------------------------------------------------
(* C4 *)

C4_RegionsInside ==
    \A i \in 1..N :
        decoded.config.attributes[i].offset + decoded.config.attributes[i].lenght
            <= decoded.config.buffer_size

\* C4: in every document returned by build_document for a decode
\* configuration whose attribute regions lie inside its estimated buffer
\* size, every buffer-view satisfies byte_offset + byte_length <= the
\* byte_length of the single synthesized buffer, and that byte_length equals
\* the estimated buffer size.
C4_ViewsInsideBuffer ==
    (Built /\ C4_RegionsInside) =>
        /\ Len(Root.buffers) = 1
        /\ Root.buffers[1].byte_length = decoded.config.buffer_size
        /\ \A i \in 1..Len(Root.views) :
            /\ Root.views[i].buffer = 0
            /\ ViewEnd(Root.views[i]) <= Root.buffers[1].byte_length

\* a document with the index view and two attribute views inside the buffer
C4_Witness ==
    /\ Built
    /\ C4_RegionsInside
    /\ N = 2
    /\ Len(Root.views) = 3

-----------------------------------------------------------------------------
(* C6 *)

\* C6 as claimed: for every well-formed record with bufferView b whose names
\* all classify, parse succeeds and yields a link with buffer_view = b and a
\* map that contains, for every (name, index) pair of the attributes object,
\* the entry index -> classify(name), and no other entries.
C6_EveryPairLinked ==
    (WellFormedRecord /\ pc \notin {"idle", "parse"}) =>
        /\ ~draco_ext.panic
        /\ draco_ext.buffer_view = prim.extensions.value.bufferView.n
        /\ \A n \in DOMAIN RecordAttrs :
            /\ RecordAttrs[n] \in DOMAIN draco_ext.map
            /\ draco_ext.map[RecordAttrs[n]] = checked(n).value
        /\ DOMAIN draco_ext.map = {RecordAttrs[n] : n \in DOMAIN RecordAttrs}

\* C6 as amended: parse succeeds and yields a link with buffer_view = b and
\* a map whose key set is the set of indices of the attributes object, each
\* key mapped to classify(name) for one of the names that carry that index
\* (for the only such name when the indices are pairwise distinct).
C6_OnePairPerIndex ==
    (WellFormedRecord /\ pc \notin {"idle", "parse"}) =>
        /\ ~draco_ext.panic
        /\ draco_ext.buffer_view = prim.extensions.value.bufferView.n
        /\ DOMAIN draco_ext.map = {RecordAttrs[n] : n \in DOMAIN RecordAttrs}
        /\ \A k \in DOMAIN draco_ext.map :
            \E n \in DOMAIN RecordAttrs :
                /\ RecordAttrs[n] = k
                /\ draco_ext.map[k] = checked(n).value

\* the record {"bufferView": 1, "attributes": {"POSITION": 0, "COLOR_0": 1}}
\* has been parsed
C6_Witness ==
    /\ ParsedSome
    /\ prim.extensions.value.bufferView = JNum(1)
    /\ RecordAttrs = (POSITION :> 0) @@ (COLOR_0 :> 1)
    /\ draco_ext.map = (0 :> Positions) @@ (1 :> Colors(<<"0">>))

-----------------------------------------------------------------------------
(* C7 *)

\* C7 as claimed: whenever build_document returns a document for a
\* configuration reporting N attributes, the key set of the link map equals
\* exactly {0, ..., N-1}.
C7_KeysEqualDomain == Built => DOMAIN draco_ext.map = 0..(N - 1)

\* C7 as amended: whenever build_document returns a document, every codec
\* index 0..N-1 has an entry in the link map; the map may hold further keys.
C7_KeysCoverDomain == Built => (0..(N - 1)) \subseteq DOMAIN draco_ext.map

\* a document built for one attribute from a link map with keys 0 and 1
C7_Witness ==
    /\ Built
    /\ N = 1
    /\ DOMAIN draco_ext.map = {0, 1}

-----------------------------------------------------------------------------
(* C8 *)

-----------------------------------------------------------------------------
(* C9 *)

C9_Primitive == Root.meshes[1].primitives[1]

C9_Shape ==
    /\ Len(Root.buffers) = 1
    /\ Len(Root.views) = N + 1
    /\ Len(Root.accessors) = N + 1
    /\ Len(Root.meshes) = 1
    /\ Len(Root.meshes[1].primitives) = 1
    /\ C9_Primitive.mode = "Triangles"
    /\ C9_Primitive.indices = 0
    /\ Root.accessors[1].buffer_view = 0
    /\ \A i \in 0..(N - 1) :
        /\ Root.accessors[i + 2].buffer_view = i + 1
        /\ Root.views[i + 2].byte_offset = decoded.config.attributes[i + 1].offset
        /\ Root.views[i + 2].byte_length = decoded.config.attributes[i + 1].lenght

\* C9 as claimed: a returned document has one buffer, N+1 views and N+1
\* accessors (index stream, then one per codec attribute in ascending order),
\* one mesh with one triangle-list primitive whose indices field references
\* the index accessor and whose attribute map has exactly N entries,
\* associating the semantic of each codec index i with the accessor created
\* for i.
C9_OneEntryPerIndex ==
    Built =>
        /\ C9_Shape
        /\ Cardinality(DOMAIN C9_Primitive.attributes) = N
        /\ \A i \in 0..(N - 1) : C9_Primitive.attributes[draco_ext.map[i]] = i + 1

\* the highest codec index below N that carries the semantic
C9_LastIndexOf(sem) ==
    CHOOSE i \in 0..(N - 1) :
        /\ draco_ext.map[i] = sem
        /\ \A j \in 0..(N - 1) : draco_ext.map[j] = sem => j <= i

\* C9 as amended: the shape is as claimed; the attribute map has one entry
\* per distinct semantic of the codec indices 0..N-1 (N entries when those
\* semantics are pairwise distinct), associating each semantic with the
\* accessor created for the highest codec index that carries it.
C9_OneEntryPerSemantic ==
    Built =>
        /\ C9_Shape
        /\ DOMAIN C9_Primitive.attributes = {draco_ext.map[i] : i \in 0..(N - 1)}
        /\ \A sem \in DOMAIN C9_Primitive.attributes :
                C9_Primitive.attributes[sem] = C9_LastIndexOf(sem) + 1
        /\ (\A i, j \in 0..(N - 1) : draco_ext.map[i] = draco_ext.map[j] => i = j)
                => Cardinality(DOMAIN C9_Primitive.attributes) = N

\* a document for two attributes, Position and Color 0
C9_Witness ==
    /\ Built
    /\ N = 2
    /\ C9_Primitive.attributes = (Positions :> 1) @@ (Colors(<<"0">>) :> 2)

-----------------------------------------------------------------------------
(* C10 *)

\* C10: in every state in which on_gltf_primitive has stopped, by returning
\* or by aborting, out_data has been overwritten if and only if out_doc has.
C10_ReplacedTogether == Stopped => (wrote_data <=> wrote_doc)

====
